---- MODULE Spec2Model ----
(***************************************************************************)
(* Reward and observation shaping layer of the one-versus-one air-combat   *)
(* task: PostureReward (reward_functions/posture_reward.py) and            *)
(* SingleCombatTask (tasks/singlecombat_task.py).                          *)
(*                                                                         *)
(* Floating-point values are modelled in fixed point: the integer n stands *)
(* for the real n / S with S = 10^4, so the 1e-4 floor of the orientation  *)
(* functions is the integer 1.  The IEEE values -inf, +inf and nan that    *)
(* numpy's arctanh produces at and beyond +-1 are the three values NegInf, *)
(* PosInf and NaN.                                                         *)
(***************************************************************************)
EXTENDS Integers, Sequences, FiniteSets, TLC

VARIABLES self, call

vars == <<self, call>>

(***************************************************************************)
(* Fixed-point arithmetic                                                  *)
(***************************************************************************)
S == 10^4

NegInf == -(2^30)
PosInf == 2^30
NaN == 2^30 + 1

IsFinite(x) == x \notin {NegInf, PosInf, NaN}

Abs(x) == IF x < 0 THEN -x ELSE x
Sign(x) == IF x > 0 THEN 1 ELSE IF x < 0 THEN -1 ELSE 0
\* Python's min(a, b) and max(a, b): b only when it compares below (above) a
Min(a, b) == IF a = NaN \/ b = NaN THEN a ELSE IF b < a THEN b ELSE a
Max(a, b) == IF a = NaN \/ b = NaN THEN a ELSE IF b > a THEN b ELSE a
\* np.clip
Clip(x, lo, hi) == IF x < lo THEN lo ELSE IF x > hi THEN hi ELSE x
\* the decimal literal n / d
F(n, d) == (n * S) \div d

\* a * b of two fixed-point values; the split keeps the products within 32 bits
FMul(a, b) == a * (b \div S) + (a * (b % S)) \div S
\* a / b of two fixed-point values
FDiv(a, b) == (a \div b) * S + ((a % b) * S) \div b

\* the float operations of the orientation path, which can carry -inf
XMul(a, b) ==
    IF a = NaN \/ b = NaN THEN NaN
    ELSE IF IsFinite(a) /\ IsFinite(b) THEN FMul(a, b)
    ELSE IF a = 0 \/ b = 0 THEN NaN
    ELSE IF Sign(a) * Sign(b) > 0 THEN PosInf ELSE NegInf
XDivPos(a, b) == IF IsFinite(a) THEN FDiv(a, b) ELSE a
XAdd(a, b) ==
    IF a = NaN \/ b = NaN THEN NaN
    ELSE IF IsFinite(a) /\ IsFinite(b) THEN a + b
    ELSE IF IsFinite(a) THEN b
    ELSE IF IsFinite(b) \/ a = b THEN a
    ELSE NaN

\* the integer square root, by bisection
RECURSIVE ISqrtB(_, _, _)
ISqrtB(n, lo, hi) ==
    IF hi - lo <= 1 THEN lo
    ELSE LET mid == (lo + hi) \div 2
         IN IF mid * mid <= n THEN ISqrtB(n, mid, hi) ELSE ISqrtB(n, lo, mid)
ISqrt(n) == IF n <= 0 THEN 0 ELSE ISqrtB(n, 0, (IF n < 46340 THEN n ELSE 46340) + 1)
\* sqrt of a fixed-point value: sqrt(v / S) * S = sqrt(v * 100) * 10
Sqrt(v) == ISqrt(v * 100) * 10

\* e^(-r) for 0 <= r < 1: the Taylor series in Horner form
RECURSIVE ExpHorner(_, _)
ExpHorner(r, n) ==
    IF n > 9 THEN S ELSE S - FMul(r, ExpHorner(r, n + 1)) \div n
EInv == ExpHorner(S, 1)
RECURSIVE PowEInv(_)
PowEInv(k) == IF k = 0 THEN S ELSE FMul(EInv, PowEInv(k - 1))
\* e^(-x) for x >= 0
ExpNeg(x) == IF x >= 12 * S THEN 0 ELSE FMul(PowEInv(x \div S), ExpHorner(x % S, 1))
\* np.exp; e^x saturates at S (the real 10^4) where e^(-x) underflows to 0
Exp(x) ==
    IF x <= 0 THEN ExpNeg(-x)
    ELSE IF ExpNeg(x) = 0 THEN S * S
    ELSE (S * S) \div ExpNeg(x)

\* np.tanh
Tanh(y) ==
    LET e == ExpNeg(2 * Abs(y))
    IN Sign(y) * FDiv(S - e, S + e)

\* u + u^3/3 + u^5/5 + ... for 0 <= u <= 1/3
AtanhSeries(u) ==
    LET u2 == FMul(u, u)
        u3 == FMul(u2, u)
        u5 == FMul(u3, u2)
        u7 == FMul(u5, u2)
        u9 == FMul(u7, u2)
    IN u + u3 \div 3 + u5 \div 5 + u7 \div 7 + u9 \div 9
Ln2 == 2 * AtanhSeries(FDiv(S, 3 * S))
\* the natural logarithm of z > 0
RECURSIVE Ln(_)
Ln(z) ==
    IF z < S THEN Ln(2 * z) - Ln2
    ELSE IF z >= 2 * S THEN Ln(z \div 2) + Ln2
    ELSE 2 * AtanhSeries(FDiv(z - S, z + S))
\* np.arctanh: -inf at -1, +inf at 1, nan outside [-1, 1]
Arctanh(x) ==
    IF x = S THEN PosInf
    ELSE IF x = -S THEN NegInf
    ELSE IF x > S \/ x < -S THEN NaN
    ELSE (Ln(S + x) - Ln(S - x)) \div 2

\* np.pi
Pi == 31416

\* cos on [0, pi/2], Taylor series in Horner form
CosT(a) ==
    LET a2 == FMul(a, a)
        h5 == S - a2 \div 90
        h4 == S - FMul(a2, h5) \div 56
        h3 == S - FMul(a2, h4) \div 30
        h2 == S - FMul(a2, h3) \div 12
    IN S - FMul(a2, h2) \div 2
\* np.cos on [-2 pi, 2 pi]
Cos(t) ==
    LET a == Abs(t)
        b == IF a > Pi THEN 2 * Pi - a ELSE a
    IN IF 2 * b <= Pi THEN CosT(b) ELSE -CosT(Pi - b)
\* np.sin
Sin(t) == Cos(t - Pi \div 2)

\* np.arccos on [-1, 1], by bisection on the decreasing cosine
RECURSIVE ArccosB(_, _, _)
ArccosB(c, lo, hi) ==
    IF hi - lo <= 1 THEN lo
    ELSE LET mid == (lo + hi) \div 2
         IN IF Cos(mid) >= c THEN ArccosB(c, mid, hi) ELSE ArccosB(c, lo, mid)
Arccos(c) ==
    IF c >= S THEN 0 ELSE IF c <= -S THEN Pi ELSE ArccosB(c, 0, Pi)

(***************************************************************************)
(* Configuration: an object read with getattr(config, key, default)        *)
(***************************************************************************)
getattr(config, key, default) ==
    IF key \in DOMAIN config THEN config[key] ELSE default

ConfigKeys ==
    {"num_agents", "PostureReward_orientation_version",
     "PostureReward_range_version", "PostureReward_target_dist"}
NumAgentsValues == {1, 2, 3}
VersionValues == {"v0", "v1", "v2", "v3"}
TargetDistValues == {2 * S, 4 * S}
FullConfigs ==
    [num_agents : NumAgentsValues,
     PostureReward_orientation_version : VersionValues,
     PostureReward_range_version : VersionValues,
     PostureReward_target_dist : TargetDistValues]
\* every configuration with any subset of the keys present
Configs == {[k \in K |-> f[k]] : f \in FullConfigs, K \in SUBSET ConfigKeys}

Raise(error, created) == [kind |-> "error", error |-> error, created |-> created]

(***************************************************************************)
(* PostureReward.__init__                                                  *)
(***************************************************************************)
\* BaseRewardFunction.__init__ : keeps the config and the agent count
BaseRewardFunction_init(config) ==
    [config |-> config, num_agents |-> getattr(config, "num_agents", 2)]

\* the unknown tag falls through to the default function
get_orientation_function_Default(version) ==
    IF version = "v0" THEN [ok |-> TRUE, fn |-> "v0"]
    ELSE IF version = "v1" THEN [ok |-> TRUE, fn |-> "v1"]
    ELSE [ok |-> TRUE, fn |-> "v2"]

get_orientation_function(version) ==
    IF version = "v0" THEN [ok |-> TRUE, fn |-> "v0"]
    ELSE IF version = "v1" THEN [ok |-> TRUE, fn |-> "v1"]
    ELSE IF version = "v2" THEN [ok |-> TRUE, fn |-> "v2"]
    ELSE [ok |-> FALSE, error |-> "NotImplementedError"]

get_range_funtion(version) ==
    IF version = "v0" THEN [ok |-> TRUE, fn |-> "v0"]
    ELSE IF version = "v1" THEN [ok |-> TRUE, fn |-> "v1"]
    ELSE IF version = "v2" THEN [ok |-> TRUE, fn |-> "v2"]
    ELSE [ok |-> FALSE, error |-> "NotImplementedError"]

PostureReward_init(config) ==
    LET base == BaseRewardFunction_init(config)
        orientation_version ==
            getattr(config, "PostureReward_orientation_version", "v2")
        range_version == getattr(config, "PostureReward_range_version", "v2")
        target_dist == getattr(config, "PostureReward_target_dist", 3 * S)
        orientation_fn == get_orientation_function(orientation_version)
        range_fn == get_range_funtion(range_version)
    IN IF base.num_agents # 2 THEN Raise("AssertionError", <<>>)
       ELSE IF ~orientation_fn.ok THEN Raise(orientation_fn.error, <<>>)
       ELSE IF ~range_fn.ok THEN Raise(range_fn.error, <<>>)
       ELSE [kind |-> "PostureReward",
             config |-> base.config,
             num_agents |-> base.num_agents,
             orientation_version |-> orientation_version,
             range_version |-> range_version,
             target_dist |-> target_dist,
             orientation_fn |-> orientation_fn.fn,
             range_fn |-> range_fn.fn,
             reward_item_names |->
                 <<"PostureReward", "PostureReward_orn", "PostureReward_range">>]

(***************************************************************************)
(* SingleCombatTask.__init__                                               *)
(***************************************************************************)
\* the collaborators constructed from the same config
Collaborator(name, config) == [kind |-> name]

state_var ==
    <<"position_long_gc_deg", "position_lat_geod_deg", "position_h_sl_ft",
      "attitude_roll_rad", "attitude_pitch_rad", "attitude_heading_true_rad",
      "velocities_v_north_fps", "velocities_v_east_fps", "velocities_v_down_fps",
      "velocities_vc_fps", "accelerations_n_pilot_x_norm",
      "accelerations_n_pilot_y_norm", "accelerations_n_pilot_z_norm">>
action_var ==
    <<"fcs_aileron_cmd_norm", "fcs_elevator_cmd_norm", "fcs_rudder_cmd_norm",
      "fcs_throttle_cmd_norm">>

load_observation_space(num_agents) ==
    [a \in 0 .. num_agents - 1 |-> [low |-> -10 * S, high |-> 10 * S, shape |-> 18]]

\* spaces.MultiDiscrete([41, 41, 41, 30]) per agent: aileron, elevator, rudder, throttle
load_action_space(num_agents) ==
    [a \in 0 .. num_agents - 1 |-> [nvec |-> <<41, 41, 41, 30>>]]

\* the agent count is read and never asserted
SingleCombatTask_init_NoAssert(config) ==
    LET num_agents == getattr(config, "num_agents", 2)
        posture == PostureReward_init(config)
    IN IF posture.kind = "error"
       THEN Raise(posture.error, <<"AltitudeReward">>)
       ELSE [kind |-> "SingleCombatTask",
             config |-> config,
             num_agents |-> num_agents,
             reward_functions |->
                 <<Collaborator("AltitudeReward", config), posture,
                   Collaborator("RelativeAltitudeReward", config)>>,
             termination_conditions |->
                 <<Collaborator("ExtremeState", config),
                   Collaborator("Overload", config),
                   Collaborator("LowAltitude", config),
                   Collaborator("Timeout", config)>>,
             state_var |-> state_var,
             action_var |-> action_var,
             observation_space |-> load_observation_space(num_agents),
             action_space |-> load_action_space(num_agents)]

SingleCombatTask_init(config) ==
    LET num_agents == getattr(config, "num_agents", 2)
        posture == PostureReward_init(config)
    IN IF num_agents # 2 THEN Raise("AssertionError", <<>>)
       ELSE IF posture.kind = "error"
            THEN Raise(posture.error, <<"AltitudeReward">>)
       ELSE [kind |-> "SingleCombatTask",
             config |-> config,
             num_agents |-> num_agents,
             reward_functions |->
                 <<Collaborator("AltitudeReward", config), posture,
                   Collaborator("RelativeAltitudeReward", config)>>,
             termination_conditions |->
                 <<Collaborator("ExtremeState", config),
                   Collaborator("Overload", config),
                   Collaborator("LowAltitude", config),
                   Collaborator("Timeout", config)>>,
             state_var |-> state_var,
             action_var |-> action_var,
             observation_space |-> load_observation_space(num_agents),
             action_space |-> load_action_space(num_agents)]

(***************************************************************************)
(* The orientation and range functions of PostureReward                    *)
(***************************************************************************)
\* arctanh(1. - max(2 * TA / pi, 1e-4)) / (2 * pi)
TargetAspectTerm(TA) ==
    XDivPos(Arctanh(S - Max(FDiv(2 * TA, Pi), F(1, 10000))), 2 * Pi)

orientation_v0(AO, TA) ==
    XAdd(XAdd((S - Tanh(9 * (AO - Pi \div 9))) \div 3 + S \div 3,
              Min(TargetAspectTerm(TA), 0)),
         F(5, 10))

orientation_v1(AO, TA) ==
    XAdd(XDivPos(XMul((S - Tanh(2 * (AO - Pi \div 2))) \div 2,
                      Arctanh(S - Max(FDiv(2 * TA, Pi), F(1, 10000)))),
                 2 * Pi),
         F(5, 10))

orientation_v2(AO, TA) ==
    XAdd(XAdd(FDiv(S, FDiv(50 * AO, Pi) + 2 * S) + S \div 2,
              Min(TargetAspectTerm(TA), 0)),
         F(5, 10))

\* self.orientation_fn(AO, TA)
orientation_fn(obj, AO, TA) ==
    CASE obj.orientation_fn = "v0" -> orientation_v0(AO, TA)
      [] obj.orientation_fn = "v1" -> orientation_v1(AO, TA)
      [] obj.orientation_fn = "v2" -> orientation_v2(AO, TA)

range_v0(target_dist, R) ==
    LET d == R - target_dist
    IN FDiv(Exp(-FMul(F(4, 1000), FMul(d, d))), S + Exp(-(d + 2 * S) * 2))

range_v1(target_dist, R) ==
    LET d == R - target_dist
    IN Clip(FDiv(FMul(F(12, 10), Min(Exp(-FMul(F(21, 100), d)), S)),
                 S + Exp(-FMul(F(8, 10), d + S))),
            F(3, 10), S)

\* the floor is left out: the clipped shaping alone
range_v2_NoFloor(target_dist, R) == range_v1(target_dist, R)

\* the floor with its sign the wrong way round
range_v2_FarFloor(target_dist, R) ==
    Max(range_v1(target_dist, R), Sign(R - 7 * S) * S)

range_v2(target_dist, R) ==
    Max(range_v1(target_dist, R), Sign(7 * S - R) * S)

\* self.range_fn(R); the lambdas read self.target_dist when called
range_fn(obj, R) ==
    CASE obj.range_fn = "v0" -> range_v0(obj.target_dist, R)
      [] obj.range_fn = "v1" -> range_v1(obj.target_dist, R)
      [] obj.range_fn = "v2" -> range_v2(obj.target_dist, R)

(***************************************************************************)
(* utils.get_AO_TA_R: angle-off, target-aspect, range and bearing side     *)
(***************************************************************************)
\* a numpy array: indices from 0
Arr(seq) == [i \in 0 .. Len(seq) - 1 |-> seq[i + 1]]

\* np.linalg.norm of a 3-vector
Norm(x, y, z) == Sqrt(FMul(x, x) + FMul(y, y) + FMul(z, z))

\* arccos(clip(dot(v, w) / (|v| * |w|), -1, 1)), 0 for a vector of no length
AngleBetween(v, w) ==
    LET nv == Norm(v[0], v[1], v[2])
        nw == Norm(w[0], w[1], w[2])
        dot == FMul(v[0], w[0]) + FMul(v[1], w[1]) + FMul(v[2], w[2])
    IN IF FMul(nv, nw) = 0 THEN 0
       ELSE Arccos(Clip(FDiv(dot, FMul(nv, nw)), -S, S))

get_AO_TA_R(ego_feature, enm_feature) ==
    LET los == [i \in 0 .. 2 |-> enm_feature[i] - ego_feature[i]]
        back == [i \in 0 .. 2 |-> -los[i]]
        ego_v == [i \in 0 .. 2 |-> ego_feature[i + 3]]
        enm_v == [i \in 0 .. 2 |-> enm_feature[i + 3]]
    IN [AO |-> AngleBetween(ego_v, los),
        TA |-> AngleBetween(enm_v, back),
        R |-> Norm(los[0], los[1], los[2]),
        side_flag |-> Sign(FMul(ego_v[0], los[1]) - FMul(ego_v[1], los[0]))]

(***************************************************************************)
(* PostureReward.get_reward                                                *)
(***************************************************************************)
\* BaseRewardFunction._process: hands the reward on with its sub-components
process(new_reward, agent_id, render_items) ==
    [total |-> new_reward,
     orientation_component |-> render_items[1],
     range_component |-> render_items[2]]

\* np.hstack([sim.get_position() / 1000, sim.get_velocity() / 340])
sim_feature(sim) ==
    Arr(<<sim.position[1] \div 1000, sim.position[2] \div 1000,
          sim.position[3] \div 1000, sim.velocity[1] \div 340,
          sim.velocity[2] \div 340, sim.velocity[3] \div 340>>)

\* agent_id is ignored: the ego is always agent 0
get_reward_AgentZero(obj, sims, agent_id) ==
    LET ego_feature == sim_feature(sims[0])
        enm_feature == sim_feature(sims[1])
        g == get_AO_TA_R(ego_feature, enm_feature)
        orientation_reward == orientation_fn(obj, g.AO, g.TA)
        range_reward == range_fn(obj, g.R)
        new_reward == XMul(orientation_reward, range_reward)
    IN [new_reward |-> new_reward,
        render_items |-> <<orientation_reward, range_reward>>,
        ret |-> process(new_reward, agent_id, <<orientation_reward, range_reward>>)]

get_reward(obj, sims, agent_id) ==
    LET ego_idx == agent_id
        enm_idx == (agent_id + 1) % obj.num_agents
        ego_feature == sim_feature(sims[ego_idx])
        enm_feature == sim_feature(sims[enm_idx])
        g == get_AO_TA_R(ego_feature, enm_feature)
        orientation_reward == orientation_fn(obj, g.AO, g.TA)
        range_reward == range_fn(obj, g.R)
        new_reward == XMul(orientation_reward, range_reward)
    IN [new_reward |-> new_reward,
        render_items |-> <<orientation_reward, range_reward>>,
        ret |-> process(new_reward, agent_id, <<orientation_reward, range_reward>>)]

(***************************************************************************)
(* A constructed PostureReward and the calls made on it                    *)
(***************************************************************************)
AOSteps == 8
TASteps == 8
RSteps == 40

\* positions in metres and velocities in metres per second
SimStates ==
    {[position |-> <<0, 0, 6000 * S>>, velocity |-> <<200 * S, 0, 0>>],
     [position |-> <<3000 * S, 0, 6000 * S>>, velocity |-> <<200 * S, 0, 0>>],
     [position |-> <<0, 4000 * S, 5000 * S>>, velocity |-> <<0, -250 * S, 10 * S>>],
     [position |-> <<10000 * S, 0, 6000 * S>>, velocity |-> <<0, 0, 0>>]}

RewardConfigs == {c \in Configs : "num_agents" \in DOMAIN c /\ c.num_agents = 2}

InitReward ==
    /\ \E config \in RewardConfigs :
           /\ PostureReward_init(config).kind = "PostureReward"
           /\ self = PostureReward_init(config)
    /\ call = [op |-> "none"]

\* the caller takes the returned value: the synchronous call is over
Return ==
    /\ call.op # "none"
    /\ call' = [op |-> "none"]
    /\ UNCHANGED self

CallOrientationFn ==
    \E i \in 0 .. AOSteps, j \in 0 .. TASteps :
        LET AO == (i * Pi) \div AOSteps
            TA == (j * Pi) \div TASteps
        IN /\ call.op = "none"
           /\ call' = [op |-> "orientation_fn", AO |-> AO, TA |-> TA,
                       ret |-> orientation_fn(self, AO, TA)]
           /\ UNCHANGED self

CallRangeFn ==
    \E k \in 0 .. RSteps :
        LET R == (k * S) \div 2
        IN /\ call.op = "none"
           /\ call' = [op |-> "range_fn", R |-> R, ret |-> range_fn(self, R)]
           /\ UNCHANGED self

CallGetReward ==
    \E agent_id \in 0 .. 1, sims \in [0 .. 1 -> SimStates] :
        LET r == get_reward(self, sims, agent_id)
        IN /\ call.op = "none"
           /\ call' = [op |-> "get_reward", agent_id |-> agent_id, sims |-> sims,
                       new_reward |-> r.new_reward,
                       render_items |-> r.render_items, ret |-> r.ret]
           /\ UNCHANGED self

NextReward == CallOrientationFn \/ CallRangeFn \/ CallGetReward \/ Return
SpecReward == InitReward /\ [][NextReward]_vars

(***************************************************************************)
(* SingleCombatTask.normalize_observation                                  *)
(***************************************************************************)
\* metres of one degree of latitude
MetersPerDegree == 111195

\* utils.lonlat2dis: local east and north distance, in metres, from the origin
lonlat2dis(lon, lat, init_lon, init_lat) ==
    LET lat_rad == FMul(Pi, lat) \div 180
    IN [east |-> FMul(Cos(lat_rad), (lon - init_lon) * MetersPerDegree),
        north |-> (lat - init_lat) * MetersPerDegree]

normalize_one(obj, env, observations, agent_id) ==
    LET ego_idx == agent_id
        enm_idx == (agent_id + 1) % obj.num_agents
        ego_obs_list == observations[ego_idx]
        enm_obs_list == observations[enm_idx]
        ego_cur == lonlat2dis(ego_obs_list[0], ego_obs_list[1],
                              env.init_longitude, env.init_latitude)
        enm_cur == lonlat2dis(enm_obs_list[0], enm_obs_list[1],
                              env.init_longitude, env.init_latitude)
        ego_feature ==
            Arr(<<ego_cur.north \div 1000, ego_cur.east \div 1000,
                  FMul(F(304, 1000), ego_obs_list[2]) \div 1000,
                  FMul(F(304, 1000), ego_obs_list[6]) \div 340,
                  FMul(F(304, 1000), ego_obs_list[7]) \div 340,
                  FMul(F(304, 1000), ego_obs_list[8]) \div 340>>)
        enm_feature ==
            Arr(<<enm_cur.north \div 1000, enm_cur.east \div 1000,
                  FMul(F(304, 1000), enm_obs_list[2]) \div 1000,
                  FMul(F(304, 1000), enm_obs_list[6]) \div 340,
                  FMul(F(304, 1000), enm_obs_list[7]) \div 340,
                  FMul(F(304, 1000), enm_obs_list[8]) \div 340>>)
        g == get_AO_TA_R(ego_feature, enm_feature)
    IN Arr(<<FMul(F(304, 1000), ego_obs_list[2]) \div 5000,
             Norm(ego_feature[3], ego_feature[4], ego_feature[5]),
             ego_obs_list[8],
             Sin(ego_obs_list[3]),
             Cos(ego_obs_list[3]),
             Sin(ego_obs_list[4]),
             Cos(ego_obs_list[4]),
             FMul(F(304, 1000), ego_obs_list[9]) \div 340,
             ego_obs_list[10],
             ego_obs_list[11],
             ego_obs_list[12],
             g.R \div 10,
             g.AO,
             g.TA,
             g.side_flag * S,
             FMul(F(304, 1000), enm_obs_list[2]) \div 5000,
             Norm(enm_feature[3], enm_feature[4], enm_feature[5]),
             enm_obs_list[8]>>)

\* every row is built for agent 0
normalize_observation_RowZero(obj, env, observations) ==
    [agent_id \in 0 .. obj.num_agents - 1 |->
        normalize_one(obj, env, observations, 0)]

normalize_observation(obj, env, observations) ==
    [agent_id \in 0 .. obj.num_agents - 1 |->
        normalize_one(obj, env, observations, agent_id)]

(***************************************************************************)
(* SingleCombatTask.normalize_action                                       *)
(***************************************************************************)
\* the grid is divided into N steps instead of N - 1
normalize_action_NSteps(obj, env, actions) ==
    LET nvec == Arr(obj.action_space[0].nvec)
    IN [agent_id \in 0 .. obj.num_agents - 1 |->
           Arr(<<(actions[agent_id][0] * 2 * S) \div nvec[0] - S,
                 (actions[agent_id][1] * 2 * S) \div nvec[1] - S,
                 (actions[agent_id][2] * 2 * S) \div nvec[2] - S,
                 (actions[agent_id][3] * F(5, 10)) \div nvec[3] + F(4, 10)>>)]

normalize_action(obj, env, actions) ==
    LET nvec == Arr(obj.action_space[0].nvec)
    IN [agent_id \in 0 .. obj.num_agents - 1 |->
           Arr(<<(actions[agent_id][0] * 2 * S) \div (nvec[0] - 1) - S,
                 (actions[agent_id][1] * 2 * S) \div (nvec[1] - 1) - S,
                 (actions[agent_id][2] * 2 * S) \div (nvec[2] - 1) - S,
                 (actions[agent_id][3] * F(5, 10)) \div (nvec[3] - 1) + F(4, 10)>>)]

(***************************************************************************)
(* A constructed SingleCombatTask and the calls made on it                 *)
(***************************************************************************)
\* how far beyond [0, N - 1] the action indices offered go
IndexOver == 1

\* the environment's origin, in degrees
Envs == {[init_longitude |-> 120 * S, init_latitude |-> 60 * S]}

\* raw simulator readings of one aircraft, in the order of state_var
RawStates ==
    {Arr(<<120 * S, lat, alt, roll, F(-1, 10), 0, vn, 0, vd, 700 * S,
           F(1, 10), 0, S>>) :
        lat \in {60 * S, 60 * S + F(3, 100)},
        alt \in {20000 * S, 15000 * S},
        roll \in {0, F(5, 10)},
        vn \in {800 * S, -600 * S},
        vd \in {0, -10 * S}}

\* one agent's indices: mid-range, with control k set to i
ActionWith(k, i) == [c \in 0 .. 3 |-> IF c = k THEN i ELSE IF c = 3 THEN 15 ELSE 20]

TaskConfigs == {c \in Configs : DOMAIN c \subseteq {"num_agents"}}

InitTask ==
    /\ \E config \in TaskConfigs :
           /\ SingleCombatTask_init(config).kind = "SingleCombatTask"
           /\ self = SingleCombatTask_init(config)
    /\ call = [op |-> "none"]

CallNormalizeObservation ==
    \E env \in Envs, observations \in [0 .. 1 -> RawStates] :
        /\ call.op = "none"
        /\ call' = [op |-> "normalize_observation", observations |-> observations,
                    ret |-> normalize_observation(self, env, observations)]
        /\ UNCHANGED self

CallNormalizeAction ==
    \E env \in Envs, a \in 0 .. 1, k \in 0 .. 3 :
        \E i \in -IndexOver .. self.action_space[0].nvec[k + 1] - 1 + IndexOver :
            LET actions == [b \in 0 .. 1 |->
                               IF b = a THEN ActionWith(k, i) ELSE ActionWith(0, 20)]
            IN /\ call.op = "none"
               /\ call' = [op |-> "normalize_action", actions |-> actions,
                           ret |-> normalize_action(self, env, actions)]
               /\ UNCHANGED self

NextTask == CallNormalizeObservation \/ CallNormalizeAction \/ Return
SpecTask == InitTask /\ [][NextTask]_vars

(***************************************************************************)
(* Construction: no object yet, then one constructor call per step         *)
(***************************************************************************)
Init == self = [kind |-> "none"] /\ call = [op |-> "none"]

NewPostureReward ==
    \E config \in Configs :
        /\ self' = PostureReward_init(config)
        /\ call' = [op |-> "PostureReward", config |-> config]

NewSingleCombatTask ==
    \E config \in Configs :
        /\ self' = SingleCombatTask_init(config)
        /\ call' = [op |-> "SingleCombatTask", config |-> config]

Next == NewPostureReward \/ NewSingleCombatTask
Spec == Init /\ [][Next]_vars

(***************************************************************************)
(* Properties                                                              *)
(***************************************************************************)
KnownVersions == {"v0", "v1", "v2"}
OrientationKey == "PostureReward_orientation_version"
RangeKey == "PostureReward_range_version"
AgentsAccepted(config) == getattr(config, "num_agents", 2) = 2

\* C1: constructing a PostureReward whose configured orientation or range
\* version is outside {v0, v1, v2} fails with an error and yields no instance;
\* an instance carries exactly the configured versions, and v2 only where the
\* key is absent.
C1_UnknownVersionFails ==
    call.op = "PostureReward" =>
        LET config == call.config
            badOrientation ==
                OrientationKey \in DOMAIN config /\ config[OrientationKey] \notin KnownVersions
            badRange ==
                RangeKey \in DOMAIN config /\ config[RangeKey] \notin KnownVersions
        IN /\ (badOrientation \/ badRange) =>
                  /\ self.kind = "error"
                  /\ AgentsAccepted(config) => self.error = "NotImplementedError"
           /\ self.kind = "PostureReward" =>
                  /\ self.orientation_fn =
                         (IF OrientationKey \in DOMAIN config
                          THEN config[OrientationKey] ELSE "v2")
                  /\ self.range_fn =
                         (IF RangeKey \in DOMAIN config THEN config[RangeKey] ELSE "v2")
                  /\ self.orientation_version = self.orientation_fn
                  /\ self.range_version = self.range_fn

C1_Witness ==
    /\ call.op = "PostureReward"
    /\ OrientationKey \in DOMAIN call.config
    /\ call.config[OrientationKey] = "v3"
    /\ AgentsAccepted(call.config)
    /\ self.kind = "error"
    /\ self.error = "NotImplementedError"

\* C2: a configured num_agents other than 2 makes the construction of
\* SingleCombatTask, and of PostureReward, fail with the assertion before
\* anything else is created; with num_agents absent SingleCombatTask uses 2
\* and goes on past the assertion.
C2_AgentCountAsserted ==
    /\ (/\ call.op \in {"SingleCombatTask", "PostureReward"}
        /\ "num_agents" \in DOMAIN call.config
        /\ call.config.num_agents # 2) =>
           /\ self.kind = "error"
           /\ self.error = "AssertionError"
           /\ self.created = <<>>
    /\ (call.op = "SingleCombatTask" /\ "num_agents" \notin DOMAIN call.config) =>
           \/ /\ self.kind = "SingleCombatTask"
              /\ self.num_agents = 2
              /\ DOMAIN self.observation_space = 0 .. 1
              /\ DOMAIN self.action_space = 0 .. 1
           \/ /\ self.kind = "error"
              /\ self.created # <<>>

C2_Witness ==
    /\ call.op = "SingleCombatTask"
    /\ "num_agents" \in DOMAIN call.config
    /\ call.config.num_agents = 3
    /\ self.kind = "error"
    /\ self.created = <<>>

\* C3: in every get_reward call, for either agent, the reward handed on is the
\* product of the two reported sub-components, and these are the orientation
\* and range functions of the (AO, TA, R) seen from agent_id towards the other
\* agent.
C3_RewardIsProduct ==
    call.op = "get_reward" =>
        LET g == get_AO_TA_R(sim_feature(call.sims[call.agent_id]),
                             sim_feature(call.sims[1 - call.agent_id]))
        IN /\ call.new_reward = XMul(call.render_items[1], call.render_items[2])
           /\ call.render_items[1] = orientation_fn(self, g.AO, g.TA)
           /\ call.render_items[2] = range_fn(self, g.R)

C3_Witness ==
    /\ call.op = "get_reward"
    /\ call.agent_id = 1
    /\ call.sims[0] # call.sims[1]
    /\ IsFinite(call.new_reward)
    /\ call.render_items[1] # S
    /\ call.render_items[2] < S
    /\ call.new_reward # call.render_items[1]

\* the claimed grid of normalize_action: N levels over [lo, hi] per control
Levels == Arr(<<41, 41, 41, 30>>)
Lo == Arr(<<-S, -S, -S, F(4, 10)>>)
Hi == Arr(<<S, S, S, F(9, 10)>>)
InRange(k, i) == 0 <= i /\ i <= Levels[k] - 1
AnyEnv == CHOOSE env \in Envs : TRUE

\* C4: normalize_action maps every in-range index i of every control to
\* i * (hi - lo) / (N - 1) + lo: index 0 to lo, index N - 1 to hi, every index
\* into [lo, hi], and no other index of the grid to the same value.
C4_LinearDequantization ==
    call.op = "normalize_action" =>
        \A a \in 0 .. 1, k \in 0 .. 3 :
            LET i == call.actions[a][k]
                v == call.ret[a][k]
            IN InRange(k, i) =>
                   /\ v = (i * (Hi[k] - Lo[k])) \div (Levels[k] - 1) + Lo[k]
                   /\ i = 0 => v = Lo[k]
                   /\ i = Levels[k] - 1 => v = Hi[k]
                   /\ Lo[k] <= v /\ v <= Hi[k]
                   /\ \A j \in 0 .. Levels[k] - 1 :
                          j # i =>
                              normalize_action(self, AnyEnv,
                                  [call.actions EXCEPT ![a][k] = j])[a][k] # v

C4_Witness ==
    /\ call.op = "normalize_action"
    /\ call.actions[1][3] = 29
    /\ call.ret[1][3] = F(9, 10)
    /\ call.ret[0][0] = 0

\* C5: an index outside [0, N - 1] never makes normalize_action return a
\* control value outside [lo, hi] (there is no error outcome: every call
\* returns its array).
C5_OutOfRangeNeverReturned ==
    call.op = "normalize_action" =>
        \A a \in 0 .. 1, k \in 0 .. 3 :
            Lo[k] <= call.ret[a][k] /\ call.ret[a][k] <= Hi[k]

\* C6: in normalize_observation the row of each agent is built with that agent
\* as ego: indices 15, 16, 17 of one row equal indices 0, 1, 2 of the other
\* row, and index 11 is the same in both.
C6_SwapSymmetric ==
    call.op = "normalize_observation" =>
        /\ \A a \in 0 .. 1 :
               /\ call.ret[a][15] = call.ret[1 - a][0]
               /\ call.ret[a][16] = call.ret[1 - a][1]
               /\ call.ret[a][17] = call.ret[1 - a][2]
               /\ call.ret[a][0] = FMul(F(304, 1000), call.observations[a][2]) \div 5000
        /\ call.ret[0][11] = call.ret[1][11]

C6_Witness ==
    /\ call.op = "normalize_observation"
    /\ call.ret[0][0] # call.ret[1][0]
    /\ call.ret[0][1] # call.ret[1][1]
    /\ call.ret[0][2] # call.ret[1][2]
    /\ call.ret[0][11] > 0

\* C7: for every R >= 0 and every target_dist the v2 range reward is at least
\* sign(7 - R).
C7_RangeFloor ==
    (call.op = "range_fn" /\ self.range_fn = "v2") =>
        call.ret >= Sign(7 * S - call.R) * S

C7_Witness ==
    /\ call.op = "range_fn"
    /\ self.range_fn = "v2"
    /\ self.target_dist = 4 * S
    /\ call.R < 7 * S
    /\ range_v1(self.target_dist, call.R) < S
    /\ call.ret = S

DefaultRange == self.range_fn = "v2" /\ self.target_dist = 3 * S

\* C8 as stated: under v2 with target_dist = 3.0 the reward at R = 0 and the
\* reward at R = 20 km are both strictly lower than the reward at R = target_dist.
C8_FallsOffBothSides ==
    (call.op = "range_fn" /\ DefaultRange /\ call.R \in {0, 20 * S}) =>
        call.ret < range_fn(self, self.target_dist)

\* C8 amended: under v2 with target_dist = 3.0 the reward at R = 20 km is
\* strictly lower than the reward at R = target_dist, and the reward at R = 0
\* is not: it equals the reward at R = target_dist, both being the floor 1.
C8_FallsOffFarOnly ==
    (call.op = "range_fn" /\ DefaultRange) =>
        /\ call.R = 20 * S => call.ret < range_fn(self, self.target_dist)
        /\ call.R = 0 =>
               /\ call.ret = range_fn(self, self.target_dist)
               /\ call.ret = S

C8_Witness ==
    /\ call.op = "range_fn"
    /\ DefaultRange
    /\ call.R = 0
    /\ call.ret = S

\* C9: for every AO and TA in [0, pi] and each version the orientation function
\* returns a finite positive value.
C9_OrientationFinitePositive ==
    call.op = "orientation_fn" => IsFinite(call.ret) /\ call.ret > 0

\* C10: in every row of normalize_observation index 2 is the ego down velocity
\* in Mach units (raw fps * 0.304 / 340) and index 17 the enemy's.
C10_VerticalSpeedInMach ==
    call.op = "normalize_observation" =>
        \A a \in 0 .. 1 :
            /\ call.ret[a][2] = FMul(F(304, 1000), call.observations[a][8]) \div 340
            /\ call.ret[a][17] =
                   FMul(F(304, 1000), call.observations[1 - a][8]) \div 340
====
